---- MODULE Spec2Model ----
(***************************************************************************)
(* Model of the Jira REST client of src/index.js: the JiraClient           *)
(* constructor (configuration validation and the stored fields), buildURL  *)
(* and makeRequest, together with the transport that completes the         *)
(* requests handed to it.                                                  *)
(*                                                                         *)
(* JavaScript values are tagged records: undefined, strings (sequences of  *)
(* one-character strings), numbers and objects.                            *)
(***************************************************************************)
EXTENDS Integers, Sequences, FiniteSets

VARIABLES
    input,     \* the configuration record as the caller passed it
    config,    \* the caller's configuration record, as it is now
    pc,        \* "new", then "constructed" or "threw"
    thrown,    \* the error the constructor threw, NoError if none
    client,    \* the fields of the object the methods are called on
    requests,  \* one record per makeRequest call, in call order
    lastURL    \* the argument and the outcome of the last buildURL call

vars == <<input, config, pc, thrown, client, requests, lastURL>>

----------------------------------------------------------------------------
(* Bounds of the model *)

\* number of makeRequest calls in one run
MaxRequests == 2

\* length of the generated paths given to buildURL
MaxPathLen == 1

----------------------------------------------------------------------------
(* JavaScript values *)

Undefined == [type |-> "undefined"]

Str(s) == [type |-> "string", val |-> s]

Num(n) == [type |-> "number", val |-> n]

\* ToBoolean, as applied by `!x`, `x ? a : b` and `if (x)`
Truthy(v) ==
    CASE v.type = "undefined" -> FALSE
      [] v.type = "string"    -> v.val # <<>>
      [] v.type = "number"    -> v.val # 0
      [] OTHER                -> TRUE

Digit(d) ==
    CASE d = 0 -> "0" [] d = 1 -> "1" [] d = 2 -> "2" [] d = 3 -> "3"
      [] d = 4 -> "4" [] d = 5 -> "5" [] d = 6 -> "6" [] d = 7 -> "7"
      [] d = 8 -> "8" [] OTHER -> "9"

RECURSIVE NumberToString(_)
\* ToString of a non-negative integer: its decimal digits
NumberToString(n) ==
    IF n < 10 THEN <<Digit(n)>>
    ELSE NumberToString(n \div 10) \o <<Digit(n % 10)>>

\* ToString, as applied by `+` with a string operand
JSToString(v) ==
    CASE v.type = "undefined" -> <<"u", "n", "d", "e", "f", "i", "n", "e", "d">>
      [] v.type = "string"    -> v.val
      [] v.type = "number"    -> NumberToString(v.val)
      [] OTHER                -> <<"[", "o", "b", "j", "e", "c", "t", "]">>

----------------------------------------------------------------------------
(* String literals of the source *)

HTTPS == <<"h", "t", "t", "p", "s">>

RSA_SHA1 == <<"R", "S", "A", "-", "S", "H", "A", "1">>

apiBasePath == <<"r", "e", "s", "t", "/", "a", "p", "i", "/">>

\* the members of errorStrings, named by their keys
NO_HOST_ERROR == "NO_HOST_ERROR"
NO_AUTHENTICATION_ERROR == "NO_AUTHENTICATION_ERROR"
NO_CONSUMER_KEY_ERROR == "NO_CONSUMER_KEY_ERROR"
NO_PRIVATE_KEY_ERROR == "NO_PRIVATE_KEY_ERROR"
NO_OAUTH_TOKEN_ERROR == "NO_OAUTH_TOKEN_ERROR"
NO_OAUTH_TOKEN_SECRET_ERROR == "NO_OAUTH_TOKEN_SECRET_ERROR"
NO_USERNAME_ERROR == "NO_USERNAME_ERROR"
NO_PASSWORD_ERROR == "NO_PASSWORD_ERROR"
INVALID_AUTHENTICATION_PROPERTY_ERROR == "INVALID_AUTHENTICATION_PROPERTY_ERROR"

\* nothing was thrown
NoError == "none"

----------------------------------------------------------------------------
(* The configurations a caller may pass to the constructor *)

HMAC_SHA1 == <<"H", "M", "A", "C", "-", "S", "H", "A", "1">>

EXAMPLE_COM == <<"e", "x", "a", "m", "p", "l", "e", ".", "c", "o", "m">>

HostValues == {Undefined, Str(<<>>), Str(EXAMPLE_COM)}

ProtocolValues == {Undefined, Str(<<"h", "t", "t", "p">>)}

PortValues == {Undefined, Num(0), Num(8080)}

FieldValues(c) == {Undefined, Str(<<c>>)}

OAuthObjects ==
    [type : {"object"},
     consumer_key : FieldValues("k"),
     private_key : FieldValues("p"),
     token : FieldValues("t"),
     token_secret : FieldValues("s"),
     signature_method : {Undefined, Str(HMAC_SHA1)}]

BasicAuthObjects ==
    [type : {"object"},
     username : FieldValues("u"),
     password : FieldValues("w")]

FullOAuth ==
    [type |-> "object", consumer_key |-> Str(<<"k">>), private_key |-> Str(<<"p">>),
     token |-> Str(<<"t">>), token_secret |-> Str(<<"s">>),
     signature_method |-> Undefined]

FullBasicAuth ==
    [type |-> "object", username |-> Str(<<"u">>), password |-> Str(<<"w">>)]

\* the `auth` member that the constructor's doc comment describes
AuthObjects ==
    {[type |-> "object", oauth |-> FullOAuth, basic_auth |-> Undefined],
     [type |-> "object", oauth |-> Undefined, basic_auth |-> FullBasicAuth]}

\* credentials at the top level of the record, or nested under `auth`
Configs ==
    [host : HostValues,
     protocol : ProtocolValues,
     port : PortValues,
     oauth : {Undefined} \cup OAuthObjects,
     basic_auth : {Undefined} \cup BasicAuthObjects,
     auth : {Undefined}]
    \cup
    [host : HostValues,
     protocol : ProtocolValues,
     port : PortValues,
     oauth : {Undefined},
     basic_auth : {Undefined},
     auth : AuthObjects]

\* the paths given to buildURL
PathChars == {"/", "i"}

RECURSIVE SeqsUpTo(_, _)
SeqsUpTo(S, n) ==
    IF n = 0 THEN {<<>>}
    ELSE LET shorter == SeqsUpTo(S, n - 1)
         IN  shorter \cup {Append(s, c) : s \in shorter, c \in S}

ISSUE_TEST_1 == <<"i", "s", "s", "u", "e", "/", "T", "E", "S", "T", "-", "1">>

Paths ==
    SeqsUpTo(PathChars, MaxPathLen)
    \cup {ISSUE_TEST_1, <<"/">> \o ISSUE_TEST_1,
          <<"/", "i", "?", "i">>, <<"/", "i", "%", "2", "0", "i">>, <<"/", "%", "i">>}

----------------------------------------------------------------------------
(* The constructor *)

\* ConstructorError with the private_key check moved before the consumer_key check
ConstructorErrorSwapped(cfg) ==
    IF ~Truthy(cfg.host) THEN NO_HOST_ERROR
    ELSE IF ~Truthy(cfg.oauth) /\ ~Truthy(cfg.basic_auth) THEN NO_AUTHENTICATION_ERROR
    ELSE IF Truthy(cfg.oauth) THEN
        IF ~Truthy(cfg.oauth.private_key) THEN NO_PRIVATE_KEY_ERROR
        ELSE IF ~Truthy(cfg.oauth.consumer_key) THEN NO_CONSUMER_KEY_ERROR
        ELSE IF ~Truthy(cfg.oauth.token) THEN NO_OAUTH_TOKEN_ERROR
        ELSE IF ~Truthy(cfg.oauth.token_secret) THEN NO_OAUTH_TOKEN_SECRET_ERROR
        ELSE NoError
    ELSE IF Truthy(cfg.basic_auth) THEN
        IF ~Truthy(cfg.basic_auth.username) THEN NO_USERNAME_ERROR
        ELSE IF ~Truthy(cfg.basic_auth.password) THEN NO_PASSWORD_ERROR
        ELSE NoError
    ELSE INVALID_AUTHENTICATION_PROPERTY_ERROR

\* ConstructorError without the check that some authentication is present
ConstructorErrorNoGuard(cfg) ==
    IF ~Truthy(cfg.host) THEN NO_HOST_ERROR
    ELSE IF Truthy(cfg.oauth) THEN
        IF ~Truthy(cfg.oauth.consumer_key) THEN NO_CONSUMER_KEY_ERROR
        ELSE IF ~Truthy(cfg.oauth.private_key) THEN NO_PRIVATE_KEY_ERROR
        ELSE IF ~Truthy(cfg.oauth.token) THEN NO_OAUTH_TOKEN_ERROR
        ELSE IF ~Truthy(cfg.oauth.token_secret) THEN NO_OAUTH_TOKEN_SECRET_ERROR
        ELSE NoError
    ELSE IF Truthy(cfg.basic_auth) THEN
        IF ~Truthy(cfg.basic_auth.username) THEN NO_USERNAME_ERROR
        ELSE IF ~Truthy(cfg.basic_auth.password) THEN NO_PASSWORD_ERROR
        ELSE NoError
    ELSE INVALID_AUTHENTICATION_PROPERTY_ERROR

\* the error the constructor throws on cfg, NoError when it returns
ConstructorError(cfg) ==
    IF ~Truthy(cfg.host) THEN NO_HOST_ERROR
    ELSE IF ~Truthy(cfg.oauth) /\ ~Truthy(cfg.basic_auth) THEN NO_AUTHENTICATION_ERROR
    ELSE IF Truthy(cfg.oauth) THEN
        IF ~Truthy(cfg.oauth.consumer_key) THEN NO_CONSUMER_KEY_ERROR
        ELSE IF ~Truthy(cfg.oauth.private_key) THEN NO_PRIVATE_KEY_ERROR
        ELSE IF ~Truthy(cfg.oauth.token) THEN NO_OAUTH_TOKEN_ERROR
        ELSE IF ~Truthy(cfg.oauth.token_secret) THEN NO_OAUTH_TOKEN_SECRET_ERROR
        ELSE NoError
    ELSE IF Truthy(cfg.basic_auth) THEN
        IF ~Truthy(cfg.basic_auth.username) THEN NO_USERNAME_ERROR
        ELSE IF ~Truthy(cfg.basic_auth.password) THEN NO_PASSWORD_ERROR
        ELSE NoError
    ELSE INVALID_AUTHENTICATION_PROPERTY_ERROR

\* SignedOAuth that writes signature_method only where the caller gave none
SignedOAuthKeeping(oauth) ==
    IF Truthy(oauth.signature_method) THEN oauth
    ELSE [oauth EXCEPT !.signature_method = Str(RSA_SHA1)]

\* config.oauth after the constructor has written signature_method into it
SignedOAuth(oauth) == [oauth EXCEPT !.signature_method = Str(RSA_SHA1)]

\* ConstructedClient with the basic-auth branch an `if` of its own, not an `else if`
ConstructedClientBoth(cfg) ==
    [host |-> cfg.host,
     protocol |-> IF Truthy(cfg.protocol) THEN cfg.protocol ELSE Str(HTTPS),
     port |-> cfg.port,
     version |-> Num(2),
     oauthConfig |-> IF Truthy(cfg.oauth)
                     THEN [cfg.oauth EXCEPT !.signature_method = Str(RSA_SHA1)]
                     ELSE Undefined,
     basic_auth |-> IF Truthy(cfg.basic_auth)
                    THEN [type |-> "object",
                          user |-> cfg.basic_auth.username,
                          pass |-> cfg.basic_auth.password]
                    ELSE Undefined]

\* the fields of `this` when the constructor returns
ConstructedClient(cfg) ==
    [host |-> cfg.host,
     protocol |-> IF Truthy(cfg.protocol) THEN cfg.protocol ELSE Str(HTTPS),
     port |-> cfg.port,
     version |-> Num(2),
     oauthConfig |-> IF Truthy(cfg.oauth) THEN SignedOAuth(cfg.oauth) ELSE Undefined,
     basic_auth |-> IF ~Truthy(cfg.oauth) /\ Truthy(cfg.basic_auth)
                    THEN [type |-> "object",
                          user |-> cfg.basic_auth.username,
                          pass |-> cfg.basic_auth.password]
                    ELSE Undefined]

\* JiraClient.prototype: it carries the methods and none of the fields
Prototype ==
    [host |-> Undefined, protocol |-> Undefined, port |-> Undefined,
     version |-> Undefined, oauthConfig |-> Undefined, basic_auth |-> Undefined]

\* the caller's record after the call: this.oauthConfig is config.oauth itself,
\* so the write of signature_method lands in the caller's object
ConfigAfter(cfg) ==
    IF ConstructorError(cfg) = NoError /\ Truthy(cfg.oauth)
    THEN [cfg EXCEPT !.oauth = SignedOAuth(cfg.oauth)]
    ELSE cfg

----------------------------------------------------------------------------
(* buildURL: url.format and decodeURIComponent *)

\* url.format is the format function of Node's url module, called with a
\* plain object of protocol, hostname, port and pathname; decodeURIComponent
\* is the ECMAScript built-in, with the escapes the model's strings can hold.

Contains(s, c) == \E i \in 1..Len(s) : s[i] = c

\* x || '' on a string-or-undefined x
OrEmpty(v) == IF Truthy(v) THEN JSToString(v) ELSE <<>>

\* the protocols after which url.format writes `//`
slashedProtocol ==
    {<<"h", "t", "t", "p", ":">>, <<"h", "t", "t", "p", "s", ":">>,
     <<"f", "t", "p", ":">>, <<"f", "i", "l", "e", ":">>,
     <<"g", "o", "p", "h", "e", "r", ":">>}

RECURSIVE EscapeQueryHash(_)
\* pathname.replace(/[?#]/g, encodeURIComponent)
EscapeQueryHash(s) ==
    IF s = <<>> THEN <<>>
    ELSE (CASE Head(s) = "?" -> <<"%", "3", "F">>
            [] Head(s) = "#" -> <<"%", "2", "3">>
            [] OTHER         -> <<Head(s)>>) \o EscapeQueryHash(Tail(s))

\* url.format of {protocol, hostname, port, pathname}; hostFalse stands for
\* the value `false` url.format keeps in host while no hostname is known
urlFormat(u) ==
    LET protocol0 == OrEmpty(u.protocol)
        pathname0 == OrEmpty(u.pathname)
        hostFalse == ~Truthy(u.hostname)
        host0 == IF hostFalse THEN <<>>
                 ELSE (IF Contains(u.hostname.val, ":")
                       THEN <<"[">> \o u.hostname.val \o <<"]">>
                       ELSE u.hostname.val)
                      \o (IF Truthy(u.port) THEN <<":">> \o JSToString(u.port) ELSE <<>>)
        protocol == IF protocol0 # <<>> /\ protocol0[Len(protocol0)] # ":"
                    THEN protocol0 \o <<":">>
                    ELSE protocol0
        slashes == (protocol = <<>> \/ protocol \in slashedProtocol) /\ ~hostFalse
        host == IF slashes THEN <<"/", "/">> \o host0 ELSE host0
        pathname == IF slashes /\ pathname0 # <<>> /\ Head(pathname0) # "/"
                    THEN <<"/">> \o pathname0
                    ELSE pathname0
    IN  protocol \o host \o EscapeQueryHash(pathname)

URIError == [type |-> "URIError"]

\* the character a percent-escape %hl stands for, "" when it is not one the
\* model knows
Unescape(h, l) ==
    CASE h = "2" /\ l = "0" -> " "
      [] h = "2" /\ l = "3" -> "#"
      [] h = "2" /\ l = "5" -> "%"
      [] h = "2" /\ l = "F" -> "/"
      [] h = "3" /\ l = "F" -> "?"
      [] OTHER              -> ""

RECURSIVE decodeURIComponent(_)
\* decodeURIComponent on a character sequence: the decoded string, or URIError
\* when a % is not followed by an escape
decodeURIComponent(s) ==
    IF s = <<>> THEN Str(<<>>)
    ELSE IF Head(s) # "%" THEN
        LET rest == decodeURIComponent(Tail(s))
        IN  IF rest = URIError THEN URIError ELSE Str(<<Head(s)>> \o rest.val)
    ELSE IF Len(s) < 3 \/ Unescape(s[2], s[3]) = "" THEN URIError
    ELSE
        LET rest == decodeURIComponent(SubSeq(s, 4, Len(s)))
        IN  IF rest = URIError THEN URIError
            ELSE Str(<<Unescape(s[2], s[3])>> \o rest.val)

\* buildURL with a slash written between the version and the path
buildURLSlash(this, path) ==
    decodeURIComponent(
        urlFormat([protocol |-> this.protocol,
                   hostname |-> this.host,
                   port |-> this.port,
                   pathname |-> Str(apiBasePath \o JSToString(this.version)
                                      \o <<"/">> \o path)]))

\* this.buildURL(path): the returned string, or the URIError it throws
buildURL(this, path) ==
    LET version == this.version
        requestUrl == urlFormat([protocol |-> this.protocol,
                                 hostname |-> this.host,
                                 port |-> this.port,
                                 pathname |-> Str(apiBasePath \o JSToString(version)
                                                    \o path)])
    IN  decodeURIComponent(requestUrl)

----------------------------------------------------------------------------
(* makeRequest and the transport *)

\* what the callback receives when the transport completes a request: the
\* transport's (error, response, body), which makeRequest never looks at
TransportResults == {"transport_result"}

\* the auth members a caller may have put into options itself
CallerAuth == [type |-> "object", user |-> Str(<<"c">>), pass |-> Str(<<"d">>)]

OptionsValues ==
    {[oauth |-> Undefined, auth |-> Undefined],
     [oauth |-> Undefined, auth |-> CallerAuth]}

\* makeRequest with the two members of options exchanged
makeRequestSwapped(this, options) ==
    LET augmented ==
            IF Truthy(this.oauthConfig) THEN [options EXCEPT !.auth = this.oauthConfig]
            ELSE IF Truthy(this.basic_auth) THEN [options EXCEPT !.oauth = this.basic_auth]
            ELSE options
    IN  [given |-> options,
         options |-> augmented,
         sent |-> augmented,
         callbacks |-> IF ~Truthy(this.oauthConfig) /\ ~Truthy(this.basic_auth)
                       THEN <<NO_AUTHENTICATION_ERROR>>
                       ELSE <<>>,
         pending |-> TRUE]

\* this.makeRequest(options, callback), up to its return: `given` is options
\* as passed, `options` the same object afterwards, `sent` what request()
\* received (Undefined if request() was not called), `callbacks` the
\* arguments of the callback's invocations so far, `pending` whether the
\* transport still owes its completion
makeRequest(this, options) ==
    LET augmented ==
            IF Truthy(this.oauthConfig) THEN [options EXCEPT !.oauth = this.oauthConfig]
            ELSE IF Truthy(this.basic_auth) THEN [options EXCEPT !.auth = this.basic_auth]
            ELSE options
        early ==
            IF ~Truthy(this.oauthConfig) /\ ~Truthy(this.basic_auth)
            THEN <<NO_AUTHENTICATION_ERROR>>
            ELSE <<>>
    IN  [given |-> options,
         options |-> augmented,
         sent |-> augmented,
         callbacks |-> early,
         pending |-> TRUE]

----------------------------------------------------------------------------
(* The state machine *)

Init ==
    /\ input \in Configs
    /\ config = input
    /\ pc = "new"
    /\ thrown = NoError
    /\ client = Prototype
    /\ requests = <<>>
    /\ lastURL = Undefined

\* new JiraClient(config)
Construct ==
    /\ pc = "new"
    /\ thrown' = ConstructorError(config)
    /\ IF ConstructorError(config) = NoError
       THEN /\ pc' = "constructed"
            /\ client' = ConstructedClient(config)
       ELSE /\ pc' = "threw"
            /\ client' = client
    /\ config' = ConfigAfter(config)
    /\ UNCHANGED <<input, requests, lastURL>>

\* client.buildURL(path) on a constructed client
BuildURL ==
    /\ pc = "constructed"
    /\ \E path \in Paths :
          lastURL' = [path |-> path, url |-> buildURL(client, path)]
    /\ UNCHANGED <<input, config, pc, thrown, client, requests>>

\* MakeRequest that writes the caller's options.auth into this.basic_auth
MakeRequestWriting ==
    /\ pc # "new"
    /\ Len(requests) < MaxRequests
    /\ \E options \in OptionsValues :
          /\ requests' = Append(requests, makeRequest(client, options))
          /\ client' = [client EXCEPT !.basic_auth = options.auth]
    /\ UNCHANGED <<input, config, pc, thrown, lastURL>>

\* makeRequest(options, callback) on the constructed client or, when the
\* constructor threw, on the bare prototype
MakeRequest ==
    /\ pc # "new"
    /\ Len(requests) < MaxRequests
    /\ \E options \in OptionsValues :
          requests' = Append(requests, makeRequest(client, options))
    /\ UNCHANGED <<input, config, pc, thrown, client, lastURL>>

\* the transport completes a request it was handed, once, through the callback
Complete ==
    /\ \E i \in 1..Len(requests), result \in TransportResults :
          /\ requests[i].sent # Undefined
          /\ requests[i].pending
          /\ requests' = [requests EXCEPT ![i].callbacks = Append(@, result),
                                          ![i].pending = FALSE]
    /\ UNCHANGED <<input, config, pc, thrown, client, lastURL>>

Next ==
    \/ Construct
    \/ BuildURL
    \/ MakeRequest
    \/ Complete

Spec == Init /\ [][Next]_vars

----------------------------------------------------------------------------
(* Properties *)

\* the object the methods run on stores neither authentication
NoAuthStored == ~Truthy(client.oauthConfig) /\ ~Truthy(client.basic_auth)

\* C1: a makeRequest call on a client that stores neither an OAuth
\* configuration nor basic-auth credentials invokes the callback with the
\* no-authentication error and hands no request to the transport.
NoAuthNeverDispatched ==
    \A i \in 1..Len(requests) :
        NoAuthStored =>
            /\ requests[i].callbacks # <<>>
            /\ requests[i].callbacks[1] = NO_AUTHENTICATION_ERROR
            /\ requests[i].sent = Undefined

\* C2: whatever the client stores, the callback of a makeRequest call is
\* invoked at most once while the transport still owes its completion and
\* exactly once when the transport has completed the request.
CallbackExactlyOnce ==
    \A i \in 1..Len(requests) :
        /\ Len(requests[i].callbacks) <= 1
        /\ ~requests[i].pending => Len(requests[i].callbacks) = 1

HasLeadingSlash(path) == path # <<>> /\ Head(path) = "/"

\* <protocol>://<host>, followed by :<port> when withPort
Origin(c, withPort) ==
    c.protocol.val \o <<":", "/", "/">> \o c.host.val
    \o (IF withPort THEN <<":">> \o NumberToString(c.port.val) ELSE <<>>)

\* the call buildURL(path) the claim C3 is about has returned or thrown
PlainPathBuilt ==
    /\ lastURL # Undefined
    /\ ~HasLeadingSlash(lastURL.path)
    /\ ~Contains(lastURL.path, "%")

\* C3 as stated: for a path without a leading slash and without
\* percent-escapes, buildURL returns <protocol>://<host>[:<port>]/rest/api/2/<path>,
\* with a slash between the version and the path and the port segment present
\* exactly when a port was configured.
BuildURLSlashSeparated ==
    PlainPathBuilt =>
        lastURL.url = Str(Origin(client, client.port # Undefined)
                          \o <<"/">> \o apiBasePath \o <<"2", "/">> \o lastURL.path)

\* C3 as amended: for a path without a leading slash and without
\* percent-escapes, buildURL returns <protocol>://<host>[:<port>]/rest/api/2<path>:
\* the path follows the version directly, and the port segment is present
\* exactly when a non-zero port was configured.
BuildURLConcatenates ==
    PlainPathBuilt =>
        lastURL.url = Str(Origin(client, Truthy(client.port))
                          \o <<"/">> \o apiBasePath \o <<"2">> \o lastURL.path)

\* buildURL("issue/TEST-1") on example.com, https, port 8080 has returned
\* https://example.com:8080/rest/api/2issue/TEST-1
BuildURLExampleBuilt ==
    /\ lastURL # Undefined
    /\ lastURL.path = ISSUE_TEST_1
    /\ client.port = Num(8080)
    /\ lastURL.url = Str(HTTPS \o <<":", "/", "/">> \o EXAMPLE_COM
                         \o <<":", "8", "0", "8", "0", "/">> \o apiBasePath
                         \o <<"2">> \o ISSUE_TEST_1)

\* C4: a configuration with a host and complete credentials nested under
\* `auth` constructs successfully and the client stores the corresponding
\* authentication.
NestedAuthConstructs ==
    (pc # "new" /\ Truthy(input.host) /\ input.auth # Undefined) =>
        /\ pc = "constructed"
        /\ Truthy(input.auth.oauth) => Truthy(client.oauthConfig)
        /\ Truthy(input.auth.basic_auth) => Truthy(client.basic_auth)

\* C5: the constructor reports the first failure of the fixed order: host,
\* then authentication present at all, then for OAuth consumer_key,
\* private_key, token, token_secret, or for basic-auth without OAuth
\* username, password; it throws nothing when no check fails.
ValidationOrder ==
    pc # "new" =>
        LET h == Truthy(input.host)
            o == Truthy(input.oauth)
            b == Truthy(input.basic_auth)
        IN  /\ ~h => thrown = NO_HOST_ERROR
            /\ (h /\ ~o /\ ~b) => thrown = NO_AUTHENTICATION_ERROR
            /\ (h /\ o) =>
                  LET ck == Truthy(input.oauth.consumer_key)
                      pk == Truthy(input.oauth.private_key)
                      tk == Truthy(input.oauth.token)
                      ts == Truthy(input.oauth.token_secret)
                  IN  /\ ~ck => thrown = NO_CONSUMER_KEY_ERROR
                      /\ (ck /\ ~pk) => thrown = NO_PRIVATE_KEY_ERROR
                      /\ (ck /\ pk /\ ~tk) => thrown = NO_OAUTH_TOKEN_ERROR
                      /\ (ck /\ pk /\ tk /\ ~ts) => thrown = NO_OAUTH_TOKEN_SECRET_ERROR
                      /\ (ck /\ pk /\ tk /\ ts) => thrown = NoError
            /\ (h /\ ~o /\ b) =>
                  LET un == Truthy(input.basic_auth.username)
                      pw == Truthy(input.basic_auth.password)
                  IN  /\ ~un => thrown = NO_USERNAME_ERROR
                      /\ (un /\ ~pw) => thrown = NO_PASSWORD_ERROR
                      /\ (un /\ pw) => thrown = NoError
            /\ (thrown = NoError) <=> (pc = "constructed")

\* the constructor threw for a missing private_key although the token, the
\* token_secret and the basic-auth username are missing too
FirstFailureReported ==
    /\ pc = "threw"
    /\ thrown = NO_PRIVATE_KEY_ERROR
    /\ Truthy(input.oauth)
    /\ ~Truthy(input.oauth.token)
    /\ ~Truthy(input.oauth.token_secret)
    /\ Truthy(input.basic_auth)
    /\ ~Truthy(input.basic_auth.username)

\* C6: a constructed client stores exactly one of an OAuth configuration and
\* a basic-auth pair, and the OAuth configuration alone when the configuration
\* supplied both.
ExactlyOneAuthMode ==
    pc = "constructed" =>
        /\ Truthy(client.oauthConfig) # Truthy(client.basic_auth)
        /\ (Truthy(input.oauth) /\ Truthy(input.basic_auth)) =>
              /\ Truthy(client.oauthConfig)
              /\ client.basic_auth = Undefined

\* a client was constructed from a configuration that supplied both
BothSuppliedConstructed ==
    /\ pc = "constructed"
    /\ Truthy(input.oauth)
    /\ Truthy(input.basic_auth)

\* C7: on a client constructed with OAuth the transport receives options
\* whose oauth is the stored OAuth configuration and whose auth is as the
\* caller left it; on a client constructed with basic-auth it receives options
\* whose auth is the stored {user, pass} pair and whose oauth is as the caller
\* left it.
AuthAttachedBeforeDispatch ==
    pc = "constructed" =>
        \A i \in 1..Len(requests) :
            /\ requests[i].sent # Undefined
            /\ Truthy(client.oauthConfig) =>
                  /\ requests[i].sent.oauth = client.oauthConfig
                  /\ requests[i].sent.auth = requests[i].given.auth
            /\ (~Truthy(client.oauthConfig) /\ Truthy(client.basic_auth)) =>
                  /\ requests[i].sent.auth = client.basic_auth
                  /\ requests[i].sent.auth =
                        [type |-> "object",
                         user |-> input.basic_auth.username,
                         pass |-> input.basic_auth.password]
                  /\ requests[i].sent.oauth = requests[i].given.oauth

\* a request went out from an OAuth client and another from the same client
\* with an auth member of the caller's own
OAuthRequestSent ==
    /\ pc = "constructed"
    /\ Truthy(client.oauthConfig)
    /\ \E i \in 1..Len(requests) : requests[i].given.auth = Undefined
    /\ \E i \in 1..Len(requests) : requests[i].given.auth = CallerAuth

\* C8: the OAuth configuration a constructed client stores, and the one every
\* request carries to the transport, has signature_method "RSA-SHA1".
SignatureMethodForced ==
    (pc = "constructed" /\ Truthy(client.oauthConfig)) =>
        /\ client.oauthConfig.signature_method = Str(RSA_SHA1)
        /\ \A i \in 1..Len(requests) :
              requests[i].sent # Undefined =>
                  requests[i].sent.oauth.signature_method = Str(RSA_SHA1)

\* a request went out from a client whose configuration asked for HMAC-SHA1
OtherSignatureMethodGiven ==
    /\ pc = "constructed"
    /\ Truthy(input.oauth)
    /\ input.oauth.signature_method = Str(HMAC_SHA1)
    /\ requests # <<>>

\* C9: once the client is constructed, no buildURL call, makeRequest call or
\* transport completion changes its stored fields.
ClientReadOnly == [][pc = "constructed" => client' = client]_vars

\* two requests are in flight at once on a constructed client that has also
\* built a URL, and the fields are those the constructor stored
TwoInFlight ==
    /\ pc = "constructed"
    /\ lastURL # Undefined
    /\ Len(requests) >= 2
    /\ requests[1].pending
    /\ requests[2].pending
    /\ client.host = input.host
    /\ client.port = input.port
    /\ client.version = Num(2)

\* C10: the constructor never throws the invalid-authentication-property
\* error: it returns or throws one of the eight other errors.
InvalidAuthPropertyNeverThrown ==
    /\ thrown # INVALID_AUTHENTICATION_PROPERTY_ERROR
    /\ pc = "threw" =>
          thrown \in {NO_HOST_ERROR, NO_AUTHENTICATION_ERROR, NO_CONSUMER_KEY_ERROR,
                      NO_PRIVATE_KEY_ERROR, NO_OAUTH_TOKEN_ERROR,
                      NO_OAUTH_TOKEN_SECRET_ERROR, NO_USERNAME_ERROR,
                      NO_PASSWORD_ERROR}

\* the constructor passed the authentication-present check and took the
\* basic-auth branch, the last one before the final else
BasicAuthBranchTaken ==
    /\ pc # "new"
    /\ Truthy(input.host)
    /\ ~Truthy(input.oauth)
    /\ Truthy(input.basic_auth)

====
